---- MODULE Spec2Model ----
(***************************************************************************)
(* Model of rename_from_nfo.py: title extraction from .nfo files, title    *)
(* sanitization, media-file matching, destination disambiguation, rename   *)
(* planning and execution.                                                 *)
(*                                                                         *)
(* Strings are sequences of one-character strings, so that the regular     *)
(* expressions and the str/pathlib methods of the script are computed      *)
(* character by character.  Four runs share the definitions:               *)
(*   SpecSan   sanitize_title applied once and twice to a drawn raw title  *)
(*   SpecExt   extract_title_from_nfo on a drawn .nfo text, then planning  *)
(*   SpecUT    the loop of unique_target, step by step                     *)
(*   Spec      main: discovery, planning, confirmation, execution          *)
(***************************************************************************)
EXTENDS Integers, Sequences, FiniteSets, TLC

VARIABLES
    raw,        \* sanitize run: the raw title handed to sanitize_title
    once,       \* sanitize run: sanitize_title(raw), or NotYet before the call
    twice,      \* sanitize run: sanitize_title(once), or NotYet before the call
    spc,        \* sanitize run: "start" | "once" | "twice" | "off"
    text,       \* extract run: the decoded text of the .nfo file
    etitle,     \* extract run: what extract_title_from_nfo returned
    eplan,      \* extract run: the actions main planned for the .nfo file
    epc,        \* extract run: "start" | "extracted" | "planned" | "off"
    ufs,        \* unique_target run: the file system
    ui,         \* unique_target run: the counter i
    ures,       \* unique_target run: the path returned, or NoPath
    upc,        \* unique_target run: "call" | "loop" | "done" | "off"
    fs,         \* main: the file system
    fs0,        \* main: the file system when the run started
    nfo_text,   \* main: .nfo path -> decoded text, or Unreadable
    recursive,  \* main: --recursive
    dry_run,    \* main: --dry-run
    do_yes,     \* main: --yes
    resp,       \* main: what input() returned, NotYet before the prompt
    todo,       \* main: the .nfo paths the planning loop has not reached
    actions,    \* main: the list of planned actions
    nxt,        \* main: index of the action the rename loop is at
    attempts,   \* main: the renames attempted, [i, ok], in order
    pc,         \* main: "start" | "plan" | "prompt" | "exec" | "done" | "off"
    outcome     \* main: how the run ended, "" while it runs

sanVars == <<raw, once, twice, spc>>

extVars == <<text, etitle, eplan, epc>>

utVars == <<ufs, ui, ures, upc>>

mainVars == <<fs, fs0, nfo_text, recursive, dry_run, do_yes, resp, todo,
              actions, nxt, attempts, pc, outcome>>

vars == <<raw, once, twice, spc, text, etitle, eplan, epc, ufs, ui, ures, upc,
          fs, fs0, nfo_text, recursive, dry_run, do_yes, resp, todo, actions,
          nxt, attempts, pc, outcome>>

----------------------------------------------------------------------------
(* Bounds *)

\* number of pieces a raw title is assembled from
MaxPieces == 4

\* number of pieces an .nfo text is assembled from
MaxTextPieces == 4

\* number of numbered candidates that may exist when unique_target is called
MaxDepth == 5

\* number of files in the directory tree when main starts
MaxFiles == 4

----------------------------------------------------------------------------
(* Characters *)

Range(f) == {f[i] : i \in DOMAIN f}

UpperSeq == <<"A","B","C","D","E","F","G","H","I","J","K","L","M",
              "N","O","P","Q","R","S","T","U","V","W","X","Y","Z">>

LowerSeq == <<"a","b","c","d","e","f","g","h","i","j","k","l","m",
              "n","o","p","q","r","s","t","u","v","w","x","y","z">>

DigitSeq == <<"0","1","2","3","4","5","6","7","8","9">>

Letters == Range(UpperSeq) \cup Range(LowerSeq)

Alnum == Letters \cup Range(DigitSeq)

\* [A-Za-z0-9]
IsAlnum(c) == c \in Alnum

\* \s of the re module, and the characters str.strip() removes
IsSpace(c) == c \in {" ", "\t", "\n", "\r", "\f"}

\* str.lower() on one character
LowerOf == [c \in Range(UpperSeq) |->
               LowerSeq[CHOOSE i \in DOMAIN UpperSeq : UpperSeq[i] = c]]

LowerChar(c) == IF c \in DOMAIN LowerOf THEN LowerOf[c] ELSE c

\* str.lower()
Lower(s) == [i \in DOMAIN s |-> LowerChar(s[i])]

\* str.replace(old, new): leftmost non-overlapping occurrences
RECURSIVE Replace(_, _, _)
Replace(s, old, new) ==
    IF Len(s) < Len(old) THEN s
    ELSE IF SubSeq(s, 1, Len(old)) = old
         THEN new \o Replace(SubSeq(s, Len(old) + 1, Len(s)), old, new)
         ELSE <<Head(s)>> \o Replace(Tail(s), old, new)

\* str.strip(): leading and trailing whitespace removed
RECURSIVE LStrip(_)
LStrip(s) == IF s # <<>> /\ IsSpace(Head(s)) THEN LStrip(Tail(s)) ELSE s

RECURSIVE RStrip(_)
RStrip(s) ==
    IF s # <<>> /\ IsSpace(s[Len(s)]) THEN RStrip(SubSeq(s, 1, Len(s) - 1)) ELSE s

Strip(s) == RStrip(LStrip(s))

----------------------------------------------------------------------------
(* sanitize_title *)

\* the characters _SANITIZE_RE leaves in place
SANITIZE_RE_keeps(c) ==
    IsAlnum(c) \/ IsSpace(c) \/ c \in {".", "-", "_", "(", ")", "[", "]"}

\* re.sub(r"-(?=[A-Za-z0-9])", "- ", t)
RECURSIVE SpaceAfterHyphen(_)
SpaceAfterHyphen(t) ==
    IF t = <<>> THEN <<>>
    ELSE IF Head(t) = "-" /\ Len(t) >= 2 /\ IsAlnum(t[2])
         THEN <<"-", " ">> \o SpaceAfterHyphen(Tail(t))
         ELSE <<Head(t)>> \o SpaceAfterHyphen(Tail(t))

\* re.sub(r"([A-Za-z0-9])-", r"\1 -", t)
RECURSIVE SpaceBeforeHyphen(_)
SpaceBeforeHyphen(t) ==
    IF t = <<>> THEN <<>>
    ELSE IF Len(t) >= 2 /\ IsAlnum(t[1]) /\ t[2] = "-"
         THEN <<t[1], " ", "-">> \o SpaceBeforeHyphen(SubSeq(t, 3, Len(t)))
         ELSE <<Head(t)>> \o SpaceBeforeHyphen(Tail(t))

\* t.replace("&amp;", "&").replace("&quot;", '"').replace("&#39;", "'")
DecodeEntities(t) ==
    Replace(Replace(Replace(t, <<"&","a","m","p",";">>, <<"&">>),
                    <<"&","q","u","o","t",";">>, <<"\"">>),
            <<"&","#","3","9",";">>, <<"'">>)

\* _SANITIZE_RE.sub("", t)
RemoveSpecial(t) == SelectSeq(t, SANITIZE_RE_keeps)

\* re.sub(r"\s+", " ", t)
RECURSIVE CollapseSpace(_)
CollapseSpace(t) ==
    IF t = <<>> THEN <<>>
    ELSE IF IsSpace(Head(t))
         THEN <<" ">> \o CollapseSpace(LStrip(t))
         ELSE <<Head(t)>> \o CollapseSpace(Tail(t))

\* sanitize_title with the final .strip() left out
sanitize_title_nostrip(title) ==
    CollapseSpace(RemoveSpecial(DecodeEntities(
        SpaceBeforeHyphen(SpaceAfterHyphen(Replace(title, <<":">>, <<"-">>))))))

sanitize_title(title) ==
    Strip(CollapseSpace(RemoveSpecial(DecodeEntities(
        SpaceBeforeHyphen(SpaceAfterHyphen(Replace(title, <<":">>, <<"-">>)))))))

----------------------------------------------------------------------------
(* extract_title_from_nfo *)

\* Python's None, where a string is expected
None == <<"(None)">>

\* the content of an .nfo path whose read_text raises twice
Unreadable == <<"(unreadable)">>

Min(S) == CHOOSE x \in S : \A y \in S : x <= y

\* s.find(c, from), 1-based; 0 when c does not occur
Find(s, c, from) ==
    LET I == {i \in from..Len(s) : s[i] = c}
    IN  IF I = {} THEN 0 ELSE Min(I)

\* the position a greedy \s* started at i stops at
SkipSpace(s, i) == Min({j \in i..(Len(s) + 1) : j = Len(s) + 1 \/ ~IsSpace(s[j])})

\* (?i) match of the literal word at position i
StartsWithCI(s, i, word) ==
    /\ i + Len(word) - 1 <= Len(s)
    /\ Lower(SubSeq(s, i, i + Len(word) - 1)) = word

IsLineBreak(c) == c \in {"\n", "\r", "\f"}

\* str.splitlines(); a "\r\n" pair gives one more empty line than Python's,
\* and every caller skips empty lines
RECURSIVE SplitLines(_)
SplitLines(s) ==
    IF s = <<>> THEN <<>>
    ELSE LET B == {i \in 1..Len(s) : IsLineBreak(s[i])}
         IN  IF B = {} THEN <<s>>
             ELSE <<SubSeq(s, 1, Min(B) - 1)>>
                      \o SplitLines(SubSeq(s, Min(B) + 1, Len(s)))

\* ln.strip(chars)
RECURSIVE StripChars(_, _)
StripChars(s, chars) ==
    IF s # <<>> /\ Head(s) \in chars THEN StripChars(Tail(s), chars)
    ELSE IF s # <<>> /\ s[Len(s)] \in chars
         THEN StripChars(SubSeq(s, 1, Len(s) - 1), chars)
         ELSE s

(* Strategy 1: ET.fromstring and root.find.  The parser covers documents   *)
(* made of start tags <name>, end tags </name> and character data; the     *)
(* texts drawn below hold no attributes, comments, CDATA or '&'.           *)

IsXmlName(n) ==
    /\ n # <<>>
    /\ Head(n) \in Letters \cup {"_"}
    /\ \A i \in DOMAIN n : IsAlnum(n[i]) \/ n[i] \in {"_", "-", "."}

BadToken == [k |-> "bad", s |-> <<>>]

TagToken(inner) ==
    IF inner # <<>> /\ Head(inner) = "/"
    THEN IF IsXmlName(Tail(inner)) THEN [k |-> "close", s |-> Tail(inner)]
         ELSE BadToken
    ELSE IF IsXmlName(inner) THEN [k |-> "open", s |-> inner] ELSE BadToken

RECURSIVE XmlTokens(_)
XmlTokens(s) ==
    IF s = <<>> THEN <<>>
    ELSE IF Head(s) = "<"
         THEN LET g == Find(s, ">", 2)
              IN  IF g = 0 THEN <<BadToken>>
                  ELSE <<TagToken(SubSeq(s, 2, g - 1))>>
                           \o XmlTokens(SubSeq(s, g + 1, Len(s)))
         ELSE LET lt == Find(s, "<", 1)
                  e  == IF lt = 0 THEN Len(s) ELSE lt - 1
              IN  <<[k |-> "text", s |-> SubSeq(s, 1, e)]>>
                      \o XmlTokens(SubSeq(s, e + 1, Len(s)))

ParseError == [ok |-> FALSE, elems |-> <<>>]

\* one pass over the tokens: stack of open elements, elements met so far in
\* document order (tag, el.text, whether it is the root), root closed or not
RECURSIVE XmlScan(_, _, _, _, _)
XmlScan(toks, i, stack, elems, closed) ==
    IF i > Len(toks) THEN [ok |-> stack = <<>> /\ closed, elems |-> elems]
    ELSE LET t == toks[i] IN
         CASE t.k = "bad" -> ParseError
           [] t.k = "text" ->
                IF stack = <<>> /\ Strip(t.s) # <<>> THEN ParseError
                ELSE XmlScan(toks, i + 1, stack, elems, closed)
           [] t.k = "open" ->
                IF stack = <<>> /\ closed THEN ParseError
                ELSE XmlScan(toks, i + 1, <<t.s>> \o stack,
                             Append(elems,
                               [tag  |-> t.s,
                                text |-> IF i < Len(toks) /\ toks[i + 1].k = "text"
                                         THEN toks[i + 1].s ELSE None,
                                root |-> stack = <<>>]),
                             closed)
           [] t.k = "close" ->
                IF stack # <<>> /\ Head(stack) = t.s
                THEN XmlScan(toks, i + 1, Tail(stack), elems,
                             closed \/ Tail(stack) = <<>>)
                ELSE ParseError

\* ET.fromstring(text.strip())
fromstring(txt) == XmlScan(XmlTokens(Strip(txt)), 1, <<>>, <<>>, FALSE)

\* root.find(".//" + tag): the first descendant of the root with that tag,
\* as an index into the elements, 0 when there is none
ElFind(elems, tag) ==
    LET I == {i \in DOMAIN elems : elems[i].tag = tag /\ ~elems[i].root}
    IN  IF I = {} THEN 0 ELSE Min(I)

XmlTags == << <<"t","i","t","l","e">>,
              <<"m","o","v","i","e","t","i","t","l","e">>,
              <<"o","r","i","g","i","n","a","l","t","i","t","l","e">>,
              <<"n","a","m","e">> >>

\* for tag in (...): el = root.find(".//" + tag); if el is not None and
\* el.text and el.text.strip(): return el.text.strip()
RECURSIVE FirstTagTitle(_, _)
FirstTagTitle(elems, tags) ==
    IF tags = <<>> THEN None
    ELSE LET e == ElFind(elems, Head(tags))
         IN  IF e # 0 /\ elems[e].text # None /\ Strip(elems[e].text) # <<>>
             THEN Strip(elems[e].text)
             ELSE FirstTagTitle(elems, Tail(tags))

\* lines 46-55: the title of the structured parse; None when the text does
\* not parse (ParseError is caught) or no listed descendant has text
StructuredTitle(txt) ==
    LET doc == fromstring(txt)
    IN  IF doc.ok THEN FirstTagTitle(doc.elems, XmlTags) ELSE None

(* Strategy 2: (?i)<\s*title[^>]*>(.*?)<\s*/\s*title\s*> with re.DOTALL *)

TitleWord == <<"t","i","t","l","e">>

\* <\s*title[^>]*> matched at p: the position after it, 0 for no match
OpenEnd(s, p) ==
    IF s[p] # "<" THEN 0
    ELSE LET j == SkipSpace(s, p + 1)
         IN  IF ~StartsWithCI(s, j, TitleWord) THEN 0
             ELSE LET g == Find(s, ">", j + Len(TitleWord))
                  IN  IF g = 0 THEN 0 ELSE g + 1

\* <\s*/\s*title\s*> matched at q: the position after it, 0 for no match
CloseEnd(s, q) ==
    IF s[q] # "<" THEN 0
    ELSE LET j == SkipSpace(s, q + 1)
         IN  IF j > Len(s) \/ s[j] # "/" THEN 0
             ELSE LET j2 == SkipSpace(s, j + 1)
                  IN  IF ~StartsWithCI(s, j2, TitleWord) THEN 0
                      ELSE LET j3 == SkipSpace(s, j2 + Len(TitleWord))
                           IN  IF j3 <= Len(s) /\ s[j3] = ">" THEN j3 + 1 ELSE 0

\* re.sub(r"<[^>]+>", "", title)
RECURSIVE RemoveTags(_)
RemoveTags(s) ==
    IF s = <<>> THEN <<>>
    ELSE IF Head(s) = "<" /\ Len(s) >= 2 /\ s[2] # ">" /\ Find(s, ">", 3) # 0
         THEN RemoveTags(SubSeq(s, Find(s, ">", 3) + 1, Len(s)))
         ELSE <<Head(s)>> \o RemoveTags(Tail(s))

\* lines 58-64: leftmost opening tag that some closing tag follows, content
\* up to the nearest closing tag, inner tags removed; None when it is blank
TagPatternTitle(txt) ==
    LET closes == {q \in 1..Len(txt) : CloseEnd(txt, q) # 0}
        opens  == {p \in 1..Len(txt) :
                      /\ OpenEnd(txt, p) # 0
                      /\ \E q \in closes : q >= OpenEnd(txt, p)}
    IN  IF opens = {} THEN None
        ELSE LET b == OpenEnd(txt, Min(opens))
                 q == Min({c \in closes : c >= b})
                 title == Strip(RemoveTags(Strip(SubSeq(txt, b, q - 1))))
             IN  IF title # <<>> THEN title ELSE None

(* Strategy 3: (?i)^(?:title|movie title|moviename|name)\s*[:=]\s*(.+)$ *)

KeyWords == { <<"t","i","t","l","e">>,
              <<"m","o","v","i","e"," ","t","i","t","l","e">>,
              <<"m","o","v","i","e","n","a","m","e">>,
              <<"n","a","m","e">> }

\* re.match on one stripped line: group(1).strip(), None for no match
KeyValueMatch(ln) ==
    LET ks == {k \in KeyWords : StartsWithCI(ln, 1, k)}
    IN  IF ks = {} THEN None
        ELSE LET k == CHOOSE w \in ks : TRUE
                 j == SkipSpace(ln, Len(k) + 1)
             IN  IF j > Len(ln) \/ ln[j] \notin {":", "="} THEN None
                 ELSE LET v == SkipSpace(ln, j + 1)
                      IN  IF v > Len(ln) THEN None
                          ELSE Strip(SubSeq(ln, v, Len(ln)))

\* lines 67-76 over the lines still to scan
RECURSIVE KeyValueLines(_)
KeyValueLines(lines) ==
    IF lines = <<>> THEN None
    ELSE LET ln == Strip(Head(lines))
         IN  IF ln = <<>> THEN KeyValueLines(Tail(lines))
             ELSE LET t == KeyValueMatch(ln)
                  IN  IF t # None /\ t # <<>> THEN t
                      ELSE KeyValueLines(Tail(lines))

KeyValueTitle(txt) == KeyValueLines(SplitLines(txt))

(* Strategy 4: first non-empty line that is no tag *)

\* lines 79-88 over the lines still to scan
RECURSIVE FallbackLines(_)
FallbackLines(lines) ==
    IF lines = <<>> THEN None
    ELSE LET ln == Strip(Head(lines))
         IN  IF ln = <<>> \/ Head(ln) = "<" THEN FallbackLines(Tail(lines))
             ELSE LET q == StripChars(ln, {" ", "\"", "'"})
                  IN  IF Len(q) >= 2 THEN q ELSE FallbackLines(Tail(lines))

FallbackTitle(txt) == FallbackLines(SplitLines(txt))

\* extract_title_from_nfo with the ParseError handler missing: text that
\* does not parse ends the extraction without a title
extract_title_no_except(content) ==
    IF content = Unreadable \/ ~fromstring(content).ok THEN None
    ELSE LET s1 == StructuredTitle(content)
             s2 == TagPatternTitle(content)
             s3 == KeyValueTitle(content)
         IN  IF s1 # None THEN s1
             ELSE IF s2 # None THEN s2
             ELSE IF s3 # None THEN s3
             ELSE FallbackTitle(content)

\* extract_title_from_nfo: content is the decoded text of the file, or
\* Unreadable when both read_text calls raise
extract_title_from_nfo(content) ==
    IF content = Unreadable THEN None
    ELSE LET s1 == StructuredTitle(content)
             s2 == TagPatternTitle(content)
             s3 == KeyValueTitle(content)
         IN  IF s1 # None THEN s1
             ELSE IF s2 # None THEN s2
             ELSE IF s3 # None THEN s3
             ELSE FallbackTitle(content)

----------------------------------------------------------------------------
(* Paths and the file system                                               *)
(*                                                                         *)
(* A path is [dir, name]: the directory it lies in ("root", the resolved   *)
(* directory main is given, or "sub", a directory inside it) and its file  *)
(* name.  A file system maps the paths that exist to [kind, id]: kind is   *)
(* "file" or "dir", id the path the entry had when the run started.        *)

Path(d, n) == [dir |-> d, name |-> n]

\* name.rfind('.'), 1-based; 0 when the name holds no dot
LastDot(name) ==
    LET I == {i \in DOMAIN name : name[i] = "."}
    IN  IF I = {} THEN 0 ELSE CHOOSE i \in I : \A j \in I : j <= i

\* PurePath.suffix
PathSuffix(name) ==
    LET i == LastDot(name)
    IN  IF 1 < i /\ i < Len(name) THEN SubSeq(name, i, Len(name)) ELSE <<>>

\* PurePath.stem
PathStem(name) ==
    LET i == LastDot(name)
    IN  IF 1 < i /\ i < Len(name) THEN SubSeq(name, 1, i - 1) ELSE name

\* Path.exists()
Exists(fsys, p) == p \in DOMAIN fsys

\* Path.is_file()
IsFile(fsys, p) == p \in DOMAIN fsys /\ fsys[p].kind = "file"

\* Path.resolve(): the paths of a run are children of the resolved root
\* (line 240) and the file systems drawn hold no symbolic links, "." or
\* "..", so every path is its own resolved form
resolve(p) == p

MOVIE_EXTS ==
    { <<".","m","p","4">>, <<".","m","k","v">>, <<".","a","v","i">>,
      <<".","m","o","v">>, <<".","w","m","v">>, <<".","f","l","v">>,
      <<".","m","p","g">>, <<".","m","p","e","g">>, <<".","m","4","v">>,
      <<".","t","s">>, <<".","w","e","b","m">>, <<".","3","g","p">>,
      <<".","o","g","v">> }

\* normalize: re.sub(r"[^A-Za-z0-9]+", "", s).lower()
normalize(s) == Lower(SelectSeq(s, IsAlnum))

\* find_movie_files_with_basename, as the set of the paths it returns; the
\* order of dirpath.iterdir() is the caller's choice
find_movie_files_with_basename(fsys, dirpath, base) ==
    {p \in DOMAIN fsys :
        /\ p.dir = dirpath
        /\ IsFile(fsys, p)
        /\ Lower(PathSuffix(p.name)) \in MOVIE_EXTS
        /\ \/ Lower(PathStem(p.name)) = Lower(base)
           \/ normalize(PathStem(p.name)) = normalize(base)}

\* str(i) for i >= 0
RECURSIVE Decimal(_)
Decimal(i) ==
    IF i < 10 THEN <<DigitSeq[i + 1]>>
    ELSE Decimal(i \div 10) \o <<DigitSeq[(i % 10) + 1]>>

\* parent / f"{stem} ({i}){suffix}"
Candidate(dest, i) ==
    Path(dest.dir,
         PathStem(dest.name) \o <<" ", "(">> \o Decimal(i) \o <<")">>
             \o PathSuffix(dest.name))

\* the while loop of unique_target entered with counter i
RECURSIVE FirstFree(_, _, _)
FirstFree(fsys, dest, i) ==
    IF ~Exists(fsys, Candidate(dest, i)) THEN Candidate(dest, i)
    ELSE FirstFree(fsys, dest, i + 1)

unique_target(fsys, dest) ==
    IF ~Exists(fsys, dest) THEN dest ELSE FirstFree(fsys, dest, 1)

\* the orders a finite set can be listed in
Orders(S) ==
    {f \in [1..Cardinality(S) -> S] : \A i, j \in DOMAIN f : f[i] = f[j] => i = j}

\* lines 190-197: the actions recorded for the movie files mfs, in order
RECURSIVE PlanFiles(_, _, _, _, _, _)
PlanFiles(fsys, dirpath, nfo, title, sanitized, mfs) ==
    IF mfs = <<>> THEN <<>>
    ELSE LET mf     == Head(mfs)
             target == Path(dirpath, sanitized \o PathSuffix(mf.name))
             unique == unique_target(fsys, target)
             rest   == PlanFiles(fsys, dirpath, nfo, title, sanitized, Tail(mfs))
         IN  IF resolve(mf) = resolve(unique) THEN rest
             ELSE <<[src |-> mf, dst |-> unique, nfo |-> nfo,
                     title |-> title, sanitized |-> sanitized]>> \o rest

\* the body of the planning loop with dirpath = root instead of nfo.parent
PlanNfo_in_root(fsys, nfo, content, mfs) ==
    LET title     == extract_title_from_nfo(content)
        sanitized == sanitize_title(title)
    IN  IF title = None \/ title = <<>> THEN <<>>
        ELSE IF sanitized = <<>> THEN <<>>
        ELSE PlanFiles(fsys, "root", nfo, title, sanitized, mfs)

\* lines 174-197, the body of the planning loop for one .nfo path: the
\* actions it appends; mfs is find_movie_files_with_basename's list
PlanNfo(fsys, nfo, content, mfs) ==
    LET title     == extract_title_from_nfo(content)
        sanitized == sanitize_title(title)
    IN  IF title = None \/ title = <<>> THEN <<>>
        ELSE IF sanitized = <<>> THEN <<>>
        ELSE PlanFiles(fsys, nfo.dir, nfo, title, sanitized, mfs)

\* Path.rename(dst) where it succeeds: dst now names what src named
Renamed(fsys, src, dst) ==
    [q \in (DOMAIN fsys \ {src}) \cup {dst} |-> IF q = dst THEN fsys[src] ELSE fsys[q]]

----------------------------------------------------------------------------
(* The value of a variable that waits for its operation, and the values   *)
(* the variables of a run keep while another run is checked.              *)

NotYet == <<"(not yet)">>

SanOff == raw = <<>> /\ once = NotYet /\ twice = NotYet /\ spc = "off"

ExtOff == text = <<>> /\ etitle = NotYet /\ eplan = <<>> /\ epc = "off"

NoPath == Path("", <<>>)

UTOff == ufs = <<>> /\ ui = 0 /\ ures = NoPath /\ upc = "off"

MainOff ==
    /\ fs = <<>> /\ fs0 = <<>> /\ nfo_text = <<>>
    /\ recursive = FALSE /\ dry_run = FALSE /\ do_yes = FALSE
    /\ resp = NotYet /\ todo = {} /\ actions = <<>> /\ nxt = 0
    /\ attempts = <<>> /\ pc = "off" /\ outcome = ""

----------------------------------------------------------------------------
(* Sanitize run: a raw title is drawn, then sanitized once and twice. *)

\* the pieces raw titles are assembled from
Pieces ==
    { <<"a">>, <<"7">>, <<"-">>, <<":">>, <<" ">>, <<"\t">>, <<"&">>, <<"(">>,
      <<"&","a","m","p",";">>, <<"&","q","u","o","t",";">> }

RECURSIVE Flatten(_)
Flatten(ps) == IF ps = <<>> THEN <<>> ELSE Head(ps) \o Flatten(Tail(ps))

PieceSeqs == UNION {[1..n -> Pieces] : n \in 0..MaxPieces}

RawTitles == {Flatten(ps) : ps \in PieceSeqs}

InitSan ==
    /\ raw \in RawTitles
    /\ once = NotYet
    /\ twice = NotYet
    /\ spc = "start"
    /\ ExtOff /\ UTOff /\ MainOff

SanitizeOnce ==
    /\ spc = "start"
    /\ once' = sanitize_title(raw)
    /\ spc' = "once"
    /\ UNCHANGED <<raw, twice, extVars, utVars, mainVars>>

SanitizeTwice ==
    /\ spc = "once"
    /\ twice' = sanitize_title(once)
    /\ spc' = "twice"
    /\ UNCHANGED <<raw, once, extVars, utVars, mainVars>>

NextSan == SanitizeOnce \/ SanitizeTwice

SpecSan == InitSan /\ [][NextSan]_vars

----------------------------------------------------------------------------
(* Claims about sanitize_title *)

\* C4: sanitize_title is idempotent: sanitizing the output of sanitize_title
\* gives that output again, for every raw title.
C4_Idempotent == spc = "twice" => twice = once

\* C7: every character of sanitize_title's output is an ASCII letter, a
\* digit, whitespace or one of . - _ ( ) [ ]; the output holds no ':', has
\* no leading or trailing whitespace and no two adjacent whitespace
\* characters.
C7_OutputSafe ==
    spc \in {"once", "twice"} =>
        /\ \A i \in DOMAIN once :
              \/ once[i] \in Range(UpperSeq) \cup Range(LowerSeq) \cup Range(DigitSeq)
              \/ once[i] \in {" ", "\t", "\n", "\r", "\f"}
              \/ once[i] \in {".", "-", "_", "(", ")", "[", "]"}
        /\ \A i \in DOMAIN once : once[i] # ":"
        /\ once # <<>> => ~IsSpace(once[1]) /\ ~IsSpace(once[Len(once)])
        /\ \A i \in 1..(Len(once) - 1) : ~(IsSpace(once[i]) /\ IsSpace(once[i + 1]))

\* C7 witness: a raw title with a colon, a stripped character and leading
\* whitespace has been sanitized to a non-empty title
C7_Witness ==
    /\ spc = "once"
    /\ once # <<>>
    /\ \E i \in DOMAIN raw : raw[i] = ":"
    /\ \E i \in DOMAIN raw : raw[i] = "&"
    /\ raw # <<>> /\ IsSpace(raw[1])

----------------------------------------------------------------------------
(* unique_target run: the function step by step on a drawn file system *)

\* the destination unique_target is called with
UTDest == Path("root", <<"B", ".", "m", "k", "v">>)

UTOther == Path("root", <<"B", " ", "(", "1", ")", ".", "a", "v", "i">>)

UTPaths == {UTDest, UTOther} \cup {Candidate(UTDest, i) : i \in 1..MaxDepth}

FileSystemOf(S) == [p \in S |-> [kind |-> "file", id |-> p]]

InitUT ==
    /\ ufs \in {FileSystemOf(S) : S \in SUBSET UTPaths}
    /\ ui = 0
    /\ ures = NoPath
    /\ upc = "call"
    /\ SanOff /\ ExtOff /\ MainOff

\* lines 147-152: dest is free and returned, or the loop is entered with i = 1
UTEnter ==
    /\ upc = "call"
    /\ IF ~Exists(ufs, UTDest)
       THEN ures' = UTDest /\ upc' = "done" /\ ui' = ui
       ELSE ures' = ures /\ upc' = "loop" /\ ui' = 1
    /\ UNCHANGED <<ufs, sanVars, extVars, mainVars>>

\* lines 153-157 with the test of line 155 left out: the first candidate
\* is returned whether it exists or not
UTLoop_unchecked ==
    /\ upc = "loop"
    /\ ures' = Candidate(UTDest, ui) /\ upc' = "done" /\ ui' = ui
    /\ UNCHANGED <<ufs, sanVars, extVars, mainVars>>

\* lines 153-157: one turn of the loop
UTLoop ==
    /\ upc = "loop"
    /\ IF ~Exists(ufs, Candidate(UTDest, ui))
       THEN ures' = Candidate(UTDest, ui) /\ upc' = "done" /\ ui' = ui
       ELSE ures' = ures /\ upc' = "loop" /\ ui' = ui + 1
    /\ UNCHANGED <<ufs, sanVars, extVars, mainVars>>

NextUT == UTEnter \/ UTLoop

\* the interpreter keeps running the function until it returns
SpecUT == InitUT /\ [][NextUT]_vars /\ WF_vars(NextUT)

\* the result of unique_target is free, is dest when dest is free, and is
\* otherwise the candidate with the smallest counter >= 1 that is free
UTResultRight ==
    upc = "done" =>
        /\ ~Exists(ufs, ures)
        /\ ~Exists(ufs, UTDest) => ures = UTDest
        /\ Exists(ufs, UTDest) =>
              /\ ui >= 1
              /\ ures = Candidate(UTDest, ui)
              /\ ures.dir = UTDest.dir
              /\ ures.name = <<"B", " ", "(">> \o Decimal(ui) \o <<")", ".", "m", "k", "v">>
              /\ \A j \in 1..(ui - 1) : Exists(ufs, Candidate(UTDest, j))
        /\ ures = unique_target(ufs, UTDest)

\* C8: unique_target terminates on every finite file system and returns a
\* path that does not exist: dest itself when dest does not exist, otherwise
\* "<stem> (i)<suffix>" beside it for the smallest i >= 1 that is free.
C8_UniqueTarget == [](UTResultRight) /\ <>(upc = "done")

\* C8 witness: unique_target has returned after three or more numbered
\* candidates were found to exist
C8_Witness == upc = "done" /\ ui >= MaxDepth - 1 /\ Exists(ufs, UTDest)

----------------------------------------------------------------------------
(* main: the directory trees and .nfo texts a run may start from *)

N_A_nfo  == <<"A", ".", "n", "f", "o">>
N_a__nfo == <<"a", "_", ".", "n", "f", "o">>
N_A_mkv  == <<"A", ".", "m", "k", "v">>
N_a__mkv == <<"a", "_", ".", "m", "k", "v">>
N_A_txt  == <<"A", ".", "t", "x", "t">>
N_B_mkv  == <<"B", ".", "m", "k", "v">>
N_B1_mkv == <<"B", " ", "(", "1", ")", ".", "m", "k", "v">>

\* the directory "sub" is the entry "a.avi" of the root
SubDir == Path("root", <<"a", ".", "a", "v", "i">>)

\* the files a tree is drawn from
FilePool ==
    { Path("root", N_A_nfo), Path("root", N_a__nfo), Path("root", N_A_mkv),
      Path("root", N_a__mkv), Path("root", N_A_txt), Path("root", N_B_mkv),
      Path("root", N_B1_mkv),
      Path("sub", N_A_nfo), Path("sub", N_A_mkv), Path("sub", N_B_mkv) }

\* <m><title>A</title></m>
TextXmlA == <<"<","m",">","<","t","i","t","l","e",">","A",
              "<","/","t","i","t","l","e",">","<","/","m",">">>

\* name=B
TextKvB == <<"n","a","m","e","=","B">>

\* && : a title that sanitizes to the empty string
TextAmp == <<"&", "&">>

\* x : no strategy finds a title
TextX == <<"x">>

MainTexts == {TextXmlA, TextKvB, TextAmp, TextX}

\* fnmatch of the pattern "*.nfo"
IsNfoName(name) ==
    Len(name) >= 4 /\ SubSeq(name, Len(name) - 3, Len(name)) = <<".", "n", "f", "o">>

Trees == {S \in SUBSET FilePool : Cardinality(S) <= MaxFiles}

TreeOf(S) ==
    [p \in S \cup {SubDir} |->
        IF p = SubDir THEN [kind |-> "dir", id |-> p] ELSE [kind |-> "file", id |-> p]]

\* what input() may return
Responses ==
    { <<"y">>, <<"Y">>, <<"y", "e", "s">>, <<" ", "Y", "e", "s", " ">>,
      <<"n">>, <<>>, <<"y", "e">>, <<"y", "e", "s", "!">> }

\* input() interrupted by KeyboardInterrupt
Interrupt == <<"(KeyboardInterrupt)">>

Init ==
    /\ \E S \in Trees :
          /\ fs = TreeOf(S)
          /\ nfo_text \in [{p \in S : IsNfoName(p.name)} -> MainTexts]
    /\ fs0 = fs
    /\ recursive \in BOOLEAN
    /\ dry_run \in BOOLEAN
    /\ do_yes \in BOOLEAN
    /\ resp = NotYet
    /\ todo = {}
    /\ actions = <<>>
    /\ nxt = 0
    /\ attempts = <<>>
    /\ pc = "start"
    /\ outcome = ""
    /\ SanOff /\ ExtOff /\ UTOff

----------------------------------------------------------------------------
(* main, step by step *)

\* root.rglob("*.nfo") or root.glob("*.nfo")
NfoPaths(fsys, rec) ==
    {p \in DOMAIN fsys : IsNfoName(p.name) /\ (rec \/ p.dir = "root")}

\* the text extract_title_from_nfo reads at an .nfo path
ContentOf(p) == IF p \in DOMAIN nfo_text THEN nfo_text[p] ELSE Unreadable

\* lines 160-170: discovery; without .nfo files the run ends
Discover ==
    /\ pc = "start"
    /\ IF NfoPaths(fs, recursive) = {}
       THEN pc' = "done" /\ outcome' = "no nfo" /\ todo' = {}
       ELSE pc' = "plan" /\ outcome' = outcome /\ todo' = NfoPaths(fs, recursive)
    /\ UNCHANGED <<fs, fs0, nfo_text, recursive, dry_run, do_yes, resp, actions,
                   nxt, attempts, sanVars, extVars, utVars>>

\* lines 173-197: one turn of the planning loop, for the next .nfo path of
\* the glob, the movie files in the order iterdir gives them
PlanNext ==
    /\ pc = "plan"
    /\ \E nfo \in todo :
       \E mfs \in Orders(find_movie_files_with_basename(fs, nfo.dir, PathStem(nfo.name))) :
          /\ actions' = actions \o PlanNfo(fs, nfo, ContentOf(nfo), mfs)
          /\ todo' = todo \ {nfo}
    /\ UNCHANGED <<fs, fs0, nfo_text, recursive, dry_run, do_yes, resp, nxt,
                   attempts, pc, outcome, sanVars, extVars, utVars>>

\* lines 199-211: the plan is complete; nothing to do, dry run, --yes, or
\* the prompt
PlanDone ==
    /\ pc = "plan"
    /\ todo = {}
    /\ IF actions = <<>> THEN pc' = "done" /\ outcome' = "no renames" /\ nxt' = nxt
       ELSE IF dry_run THEN pc' = "done" /\ outcome' = "dry run" /\ nxt' = nxt
       ELSE IF ~do_yes THEN pc' = "prompt" /\ outcome' = outcome /\ nxt' = nxt
       ELSE pc' = "exec" /\ outcome' = outcome /\ nxt' = 1
    /\ UNCHANGED <<fs, fs0, nfo_text, recursive, dry_run, do_yes, resp, todo,
                   actions, attempts, sanVars, extVars, utVars>>

\* lines 213-220 with every response taken for a yes
Prompt_any_response ==
    /\ pc = "prompt"
    /\ \E r \in Responses \cup {Interrupt} :
          /\ resp' = r
          /\ pc' = "exec" /\ outcome' = outcome /\ nxt' = 1
    /\ UNCHANGED <<fs, fs0, nfo_text, recursive, dry_run, do_yes, todo, actions,
                   attempts, sanVars, extVars, utVars>>

\* lines 213-220: the prompt; an interrupt cancels, a response other than
\* y or yes aborts
Prompt ==
    /\ pc = "prompt"
    /\ \E r \in Responses \cup {Interrupt} :
          /\ resp' = r
          /\ IF r = Interrupt
             THEN pc' = "done" /\ outcome' = "cancelled" /\ nxt' = nxt
             ELSE IF Lower(Strip(r)) \notin {<<"y">>, <<"y", "e", "s">>}
             THEN pc' = "done" /\ outcome' = "aborted" /\ nxt' = nxt
             ELSE pc' = "exec" /\ outcome' = outcome /\ nxt' = 1
    /\ UNCHANGED <<fs, fs0, nfo_text, recursive, dry_run, do_yes, todo, actions,
                   attempts, sanVars, extVars, utVars>>

\* lines 223-228: src.rename(dst) succeeds; an existing file at dst is
\* replaced, as os.rename does on POSIX
RenameOk ==
    /\ pc = "exec"
    /\ nxt <= Len(actions)
    /\ IsFile(fs, actions[nxt].src)
    /\ ~(Exists(fs, actions[nxt].dst) /\ ~IsFile(fs, actions[nxt].dst))
    /\ fs' = Renamed(fs, actions[nxt].src, actions[nxt].dst)
    /\ attempts' = Append(attempts, [i |-> nxt, ok |-> TRUE])
    /\ nxt' = nxt + 1
    /\ UNCHANGED <<fs0, nfo_text, recursive, dry_run, do_yes, resp, todo, actions,
                   pc, outcome, sanVars, extVars, utVars>>

\* lines 229-230 with the exception leaving the loop: the run ends
RenameFail_raises ==
    /\ pc = "exec"
    /\ nxt <= Len(actions)
    /\ attempts' = Append(attempts, [i |-> nxt, ok |-> FALSE])
    /\ pc' = "done" /\ outcome' = "raised"
    /\ UNCHANGED <<fs, fs0, nfo_text, recursive, dry_run, do_yes, resp, todo,
                   actions, nxt, sanVars, extVars, utVars>>

\* lines 229-230: src.rename(dst) raises (source gone, permission denied,
\* destination taken where the platform refuses to replace, ...); the
\* exception is caught and reported
RenameFail ==
    /\ pc = "exec"
    /\ nxt <= Len(actions)
    /\ attempts' = Append(attempts, [i |-> nxt, ok |-> FALSE])
    /\ nxt' = nxt + 1
    /\ UNCHANGED <<fs, fs0, nfo_text, recursive, dry_run, do_yes, resp, todo,
                   actions, pc, outcome, sanVars, extVars, utVars>>

\* line 223: the rename loop has no action left; main returns
Finish ==
    /\ pc = "exec"
    /\ nxt > Len(actions)
    /\ pc' = "done" /\ outcome' = "renamed"
    /\ UNCHANGED <<fs, fs0, nfo_text, recursive, dry_run, do_yes, resp, todo,
                   actions, nxt, attempts, sanVars, extVars, utVars>>

Next == Discover \/ PlanNext \/ PlanDone \/ Prompt \/ RenameOk \/ RenameFail \/ Finish

Spec == Init /\ [][Next]_vars

----------------------------------------------------------------------------
(* Extract run: an .nfo text is drawn and handed to extract_title_from_nfo. *)

TextPieces ==
    { <<"<","a",">">>, <<"<","/","a",">">>,
      <<"<","t","i","t","l","e",">","H","e","<","/","t","i","t","l","e",">">>,
      <<"<","t","i","t","l","e",">"," ","<","/","t","i","t","l","e",">">>,
      <<"<","n","a","m","e",">","x","7","<","/","n","a","m","e",">">>,
      <<"<","T","i","t","l","e",">">>, <<"<","/","t","i","t","l","e",">">>,
      <<"n","a","m","e","=","H","e">>, <<"\"","x","\"">>, <<"\n">> }

TextPieceSeqs == UNION {[1..n -> TextPieces] : n \in 0..MaxTextPieces}

NfoTexts == {Flatten(ps) : ps \in TextPieceSeqs} \cup {Unreadable}

InitExt ==
    /\ text \in NfoTexts
    /\ etitle = NotYet
    /\ eplan = <<>>
    /\ epc = "start"
    /\ SanOff /\ UTOff /\ MainOff

ExtractTitle ==
    /\ epc = "start"
    /\ etitle' = extract_title_from_nfo(text)
    /\ epc' = "extracted"
    /\ UNCHANGED <<text, eplan, sanVars, utVars, mainVars>>

\* the directory the drawn text is planned in: A.nfo beside A.mkv
ExtNfo == Path("root", N_A_nfo)

ExtTree == TreeOf({ExtNfo, Path("root", N_A_mkv)})

\* lines 174-197 for the drawn text
PlanForNfo ==
    /\ epc = "extracted"
    /\ \E mfs \in Orders(find_movie_files_with_basename(ExtTree, ExtNfo.dir,
                                                        PathStem(ExtNfo.name))) :
          eplan' = PlanNfo(ExtTree, ExtNfo, text, mfs)
    /\ epc' = "planned"
    /\ UNCHANGED <<text, etitle, sanVars, utVars, mainVars>>

NextExt == ExtractTitle \/ PlanForNfo

SpecExt == InitExt /\ [][NextExt]_vars

----------------------------------------------------------------------------
(* Claims about main *)

\* the planning loop has finished and the plan stands
PlanCommitted == pc = "plan" /\ todo = {}

\* C1: when the planning loop has finished, no two recorded actions have
\* the same destination path.
C1_UniqueDestinations ==
    PlanCommitted =>
        \A i, j \in DOMAIN actions : actions[i].dst = actions[j].dst => i = j

\* C2: a matched media file whose path already is directory + sanitized
\* title + its extension is skipped: no action is recorded for it.
C2_SkipCorrectlyNamed ==
    PlanCommitted =>
        \A i \in DOMAIN actions :
            actions[i].src #
                Path(actions[i].nfo.dir,
                     actions[i].sanitized \o PathSuffix(actions[i].src.name))

\* C3: executing a plan deletes nothing: every file of the start is still
\* there, under its original name or under the destination planned for it,
\* and each directory holds as many entries as before.
C3_NoFileLost ==
    /\ \A p \in DOMAIN fs0 :
          \/ p \in DOMAIN fs /\ fs[p].id = p
          \/ \E i \in DOMAIN actions :
                /\ actions[i].src = p
                /\ actions[i].dst \in DOMAIN fs
                /\ fs[actions[i].dst].id = p
    /\ \A d \in {"root", "sub"} :
          Cardinality({p \in DOMAIN fs : p.dir = d})
              = Cardinality({p \in DOMAIN fs0 : p.dir = d})

\* a rename is authorised: no dry run, and --yes or a response that is y or
\* yes once trimmed and lower-cased
Authorised ==
    /\ ~dry_run
    /\ \/ do_yes
       \/ /\ resp \notin {NotYet, Interrupt}
          /\ \/ Lower(Strip(resp)) = <<"y">>
             \/ Lower(Strip(resp)) = <<"y", "e", "s">>

\* C5: a rename is attempted only when it is authorised; in a dry run, on
\* any other response and on an interrupt at the prompt the directory
\* contents stay what they were.
C5_NoUnauthorisedMutation ==
    /\ (pc = "exec" \/ attempts # <<>> \/ fs # fs0) => Authorised
    /\ outcome \in {"dry run", "aborted", "cancelled"} => fs = fs0 /\ attempts = <<>>
    /\ (pc = "done" /\ actions # <<>> /\ ~Authorised) =>
          outcome \in {"dry run", "aborted", "cancelled"}

\* C5 witness: a plan with actions was shown and the response "ye" ended
\* the run with nothing renamed
C5_Witness ==
    /\ pc = "done" /\ outcome = "aborted"
    /\ resp = <<"y", "e">>
    /\ Len(actions) >= 2
    /\ fs = fs0

\* C6: once execution starts every action is attempted exactly once, in plan
\* order; a failed rename is caught and the later ones are still attempted;
\* the run ends normally with all of them attempted.
C6_IndependentRenames ==
    /\ \A k \in DOMAIN attempts : attempts[k].i = k
    /\ Len(attempts) <= Len(actions)
    /\ pc = "exec" => Len(attempts) = nxt - 1
    /\ (pc = "done" /\ (attempts # <<>> \/ (actions # <<>> /\ Authorised))) =>
          /\ outcome = "renamed"
          /\ Len(attempts) = Len(actions)

\* C6 witness: the first rename of a plan failed, the second succeeded, and
\* the run ended
C6_Witness ==
    /\ pc = "done" /\ outcome = "renamed"
    /\ Len(attempts) >= 2
    /\ ~attempts[1].ok /\ attempts[2].ok

\* C10: every recorded action stays in place: source, destination and .nfo
\* lie in one directory, the destination keeps the source's extension, and
\* its name is the sanitized title, then " (i)" or nothing, then the
\* extension; no file is ever found in another directory than it started in.
C10_InPlace ==
    /\ \A k \in DOMAIN actions :
          LET a   == actions[k]
              san == sanitize_title(extract_title_from_nfo(ContentOf(a.nfo)))
              ext == PathSuffix(a.src.name)
          IN  /\ a.dst.dir = a.src.dir
              /\ a.src.dir = a.nfo.dir
              /\ PathSuffix(a.dst.name) = ext
              /\ san # <<>> /\ a.sanitized = san
              /\ \/ a.dst.name = san \o ext
                 \/ \E i \in 1..Cardinality(DOMAIN fs0) :
                       a.dst.name = san \o <<" ", "(">> \o Decimal(i) \o <<")">> \o ext
    /\ \A q \in DOMAIN fs : fs[q].id.dir = q.dir

\* C10 witness: a file of the subdirectory was renamed inside it to a name
\* with a counter
C10_Witness ==
    /\ pc = "done" /\ outcome = "renamed"
    /\ \E k \in DOMAIN actions :
          /\ actions[k].src.dir = "sub"
          /\ actions[k].dst = Path("sub", N_B1_mkv)
          /\ attempts[k].ok
          /\ actions[k].dst \in DOMAIN fs

====
